---- MODULE Spec2Model ----
(***************************************************************************)
(* Model of the font builder: creat_font_001.py (the pipeline main() and   *)
(* the glyph placement functions) and create_font_002.py (the launcher     *)
(* that re-runs the same pipeline under a FontForge interpreter).          *)
(*                                                                         *)
(* Coordinates are the floats FontForge returns; they are kept here as     *)
(* fixed-point integers counting 1/Res of a font unit, so a scaled width   *)
(* such as 50.5 is representable and floor division and int() act on it    *)
(* as Python's // and int() do.                                            *)
(***************************************************************************)
EXTENDS Integers, Sequences, FiniteSets, TLC

VARIABLES
    \* ---- configuration (read_config, main's locals) ----
    GLYPHS,            \* config['GLYPHS']: sequence of [char, exists, outline]
    scaling_factor,    \* float(config[...]['scaling_factor']) as [num, den]
    alignment,         \* config[...].get('alignment', 'bottom')
    vertical_offset,   \* int(config[...].get('vertical_offset', 0))
    metrics,           \* the library's font metrics: ascent, descent, em width
    \* ---- the font session of main() ----
    font,              \* code point -> glyph, for the glyphs the font holds
    pc,                \* position of main()
    i,                 \* index of the request the for-loop is at
    glyph,             \* main's local: code point of the glyph, or None
    loc,               \* locals of center_and_align_glyph
    sfd,               \* the file font.save writes: the glyphs it holds
    ttf,               \* the file font.generate writes: the glyphs it holds
    log,               \* the steps executed so far, in order
    \* ---- the placement functions applied to one glyph ----
    pg,                \* the glyph
    pphase,            \* "idle" | "traced" | "scaled" | "placed" | "ValueError"
    papplied,          \* how many times center_and_align_glyph has run on pg
    plast,             \* what the last run computed, and the glyph before it
    \* ---- the launcher (create_font_002.py) ----
    lpc,               \* position of the launcher
    system,            \* platform.system()
    is_frozen,         \* getattr(sys, 'frozen', False)
    can_import,        \* whether import fontforge, psMat succeeds
    ffpython_exists,   \* os.path.exists(fontforge_path)
    temp_files,        \* the files in the temporary directory
    temp_script_path,  \* run_main_script's local
    exit_status        \* how the launcher process ended

cfgvars    == <<GLYPHS, scaling_factor, alignment, vertical_offset, metrics>>
mainvars   == <<font, pc, i, glyph, loc, sfd, ttf, log>>
placevars  == <<pg, pphase, papplied, plast>>
launchvars == <<lpc, system, is_frozen, can_import, ffpython_exists,
                temp_files, temp_script_path, exit_status>>
vars       == <<cfgvars, mainvars, placevars, launchvars>>

---------------------------------------------------------------------------
(* Bounds *)

Res == 2            \* sub-units per font unit of the fixed-point coordinates
MaxGlyphs == 2      \* longest GLYPHS section
MaxApplications == 3 \* how often placement is re-applied to one glyph

---------------------------------------------------------------------------
(* Values *)

None == {}          \* the glyph local when no glyph was returned; {u} otherwise
NotWritten == [written |-> FALSE, glyphs |-> {}]
Written(f) == [written |-> TRUE, glyphs |-> DOMAIN f]

FU(n) == n * Res    \* an integer number of font units, in sub-units

\* Python's x // 2 on a float: the floor of the quotient, a whole number.
FloorDiv2(n) == Res * (n \div (2 * Res))

\* Python's int(x) on a float: truncation toward zero, in font units.
PyInt(n) == IF n >= 0 THEN n \div Res ELSE -((-n) \div Res)

Min(S) == CHOOSE m \in S : \A x \in S : m <= x
Max(S) == CHOOSE m \in S : \A x \in S : m >= x

Chars == {"A", "B", "C"}

ord(char) == CASE char = "A" -> 65 [] char = "B" -> 66 [] char = "C" -> 67

Box(x0, y0, x1, y1) == {<<FU(x0), FU(y0)>>, <<FU(x1), FU(y1)>>}

\* What autoTrace can leave in a glyph's foreground: nothing, or contours
\* (their extreme points are kept).
TraceOutlines == {{}, Box(0, 0, 100, 200), Box(-1, -2, 2, 1)}

ScalingFactors == {[num |-> 1, den |-> 2], [num |-> 2, den |-> 1]}

Alignments == {"bottom", "top", "middle"}

VerticalOffsets == {-1, 0, 5}

\* an even and an odd advance width
FontMetrics == {[ascent |-> 800, descent |-> 200, em |-> 1000],
                [ascent |-> 4, descent |-> 1, em |-> 5]}

---------------------------------------------------------------------------
(* The library calls the code makes *)

\* psMat.scale(s) and psMat.translate(x, y)
psMat_scale(s) == [s |-> s, dx |-> 0, dy |-> 0]
psMat_translate(x, y) == [s |-> [num |-> 1, den |-> 1], dx |-> x, dy |-> y]

ApplyMat(m, v, d) == (v * m.s.num) \div m.s.den + d

\* glyph.transform(matrix): every point of the foreground is mapped
transform(g, m) ==
    [g EXCEPT !.foreground =
        {<<ApplyMat(m, p[1], m.dx), ApplyMat(m, p[2], m.dy)>> : p \in g.foreground}]

\* glyph.boundingBox(): the extent of the contours, all zero without any
boundingBox(g) ==
    IF g.foreground = {}
    THEN [min_x |-> 0, min_y |-> 0, max_x |-> 0, max_y |-> 0]
    ELSE [min_x |-> Min({p[1] : p \in g.foreground}),
          min_y |-> Min({p[2] : p \in g.foreground}),
          max_x |-> Max({p[1] : p \in g.foreground}),
          max_y |-> Max({p[2] : p \in g.foreground})]

\* a glyph as font.createChar makes it
NewGlyph == [foreground |-> {}, width |-> metrics.em,
             left_side_bearing |-> 0, right_side_bearing |-> 0]

\* font.createChar(unicode_int): the glyph is added to the font unless there
createChar(f, u) ==
    IF u \in DOMAIN f THEN f
    ELSE [v \in DOMAIN f \cup {u} |-> IF v = u THEN NewGlyph ELSE f[v]]

---------------------------------------------------------------------------
(* center_and_align_glyph, line by line *)

glyph_width(box) == box.max_x - box.min_x

\* mutant: the offset without "- min_x"
center_x_offset_no_min(box, advance_width) ==
    FloorDiv2(FU(advance_width) - glyph_width(box))

center_x_offset(box, advance_width) ==
    FloorDiv2(FU(advance_width) - glyph_width(box)) - box.min_x

ValidAlignment(a) == a \in {"bottom", "top"}

\* mutant: vertical_offset left out of the 'top' branch
y_offset_top_no_offset(box, a, off, ascent) ==
    IF a = "bottom" THEN -box.min_y + FU(off)
    ELSE FU(ascent) - box.max_y

y_offset(box, a, off, ascent) ==
    IF a = "bottom" THEN -box.min_y + FU(off)
    ELSE (FU(ascent) - box.max_y) + FU(off)

left_side_bearing(box, advance_width) ==
    FloorDiv2(FU(advance_width) - glyph_width(box))

\* mutant: the right bearing taken equal to the left one
right_side_bearing_mirror(box, advance_width) ==
    left_side_bearing(box, advance_width)

right_side_bearing(box, advance_width) ==
    FU(advance_width) - glyph_width(box) - left_side_bearing(box, advance_width)

SetBearings(g, box) ==
    [g EXCEPT !.left_side_bearing = PyInt(left_side_bearing(box, g.width)),
              !.right_side_bearing = PyInt(right_side_bearing(box, g.width))]

NoLocals == [box |-> [min_x |-> 0, min_y |-> 0, max_x |-> 0, max_y |-> 0],
             center_x_offset |-> 0, y_offset |-> 0]

---------------------------------------------------------------------------
(* The configurations read_config can return *)

Requests ==
    {[char |-> c, exists |-> FALSE, outline |-> {}] : c \in Chars}
    \cup {[char |-> c, exists |-> TRUE, outline |-> o] :
              c \in Chars, o \in TraceOutlines}

\* the keys of a section are distinct
GlyphSections ==
    {s \in UNION {[1..n -> Requests] : n \in 0..MaxGlyphs} :
        \A j, k \in DOMAIN s : j # k => s[j].char # s[k].char}

ConfigInit ==
    /\ GLYPHS \in GlyphSections
    /\ scaling_factor \in ScalingFactors
    /\ alignment \in Alignments
    /\ vertical_offset \in VerticalOffsets
    /\ metrics \in FontMetrics

EmptyFont == [u \in {} |-> NewGlyph]

MainIdle ==
    /\ font = EmptyFont
    /\ pc = "idle"
    /\ i = 0
    /\ glyph = None
    /\ loc = NoLocals
    /\ sfd = NotWritten
    /\ ttf = NotWritten
    /\ log = <<>>

PlaceIdle ==
    /\ pg = NewGlyph
    /\ pphase = "idle"
    /\ papplied = 0
    /\ plast = [before |-> NewGlyph, center_x_offset |-> 0, y_offset |-> 0]

LaunchIdle ==
    /\ lpc = "idle"
    /\ system = "Linux"
    /\ is_frozen = FALSE
    /\ can_import = TRUE
    /\ ffpython_exists = FALSE
    /\ temp_files = {}
    /\ temp_script_path = ""
    /\ exit_status = "running"

---------------------------------------------------------------------------
(* main() of creat_font_001.py, the same as the embedded SCRIPT_CONTENT *)

Init ==
    /\ ConfigInit
    /\ font = EmptyFont
    /\ pc = "main"
    /\ i = 0
    /\ glyph = None
    /\ loc = NoLocals
    /\ sfd = NotWritten
    /\ ttf = NotWritten
    /\ log = <<>>
    /\ PlaceIdle
    /\ LaunchIdle

Step(op, k) == [op |-> op, i |-> k]

\* mutant: the loop stops one request early
ForNextOffByOne(k) == IF k < Len(GLYPHS) THEN "import" ELSE "save"

\* the for statement: the next request, or the statement after the loop
ForNext(k) == IF k <= Len(GLYPHS) THEN "import" ELSE "save"

\* the glyph the local refers to
Ref == CHOOSE u \in glyph : TRUE

create_font ==
    /\ UNCHANGED <<cfgvars, placevars, launchvars>>
    /\ pc = "main"
    /\ font' = EmptyFont
    /\ i' = 1
    /\ pc' = ForNext(1)
    /\ log' = Append(log, Step("create_font", 0))
    /\ UNCHANGED <<glyph, loc, sfd, ttf>>

\* mutant: an empty trace is skipped like a missing image
import_and_trace_glyph_skip_empty ==
    /\ UNCHANGED <<cfgvars, placevars, launchvars>>
    /\ pc = "import"
    /\ LET req == GLYPHS[i]
           unicode_int == ord(req.char)
           created == createChar(font, unicode_int)
       IN  IF ~req.exists \/ req.outline = {}
           THEN /\ font' = created
                /\ glyph' = None
                /\ i' = i + 1
                /\ pc' = IF i + 1 <= Len(GLYPHS) THEN "import" ELSE "save"
           ELSE /\ font' = [created EXCEPT ![unicode_int].foreground = req.outline]
                /\ glyph' = {unicode_int}
                /\ i' = i
                /\ pc' = "scale"
    /\ log' = Append(log, [op |-> "import", i |-> i])
    /\ UNCHANGED <<loc, sfd, ttf>>

\* import_and_trace_glyph, and main's "if glyph:" on what it returns (a glyph
\* object is true, None is false)
import_and_trace_glyph ==
    /\ UNCHANGED <<cfgvars, placevars, launchvars>>
    /\ pc = "import"
    /\ LET req == GLYPHS[i]
           unicode_int == ord(req.char)
           created == createChar(font, unicode_int)
       IN  IF ~req.exists
           THEN /\ font' = created
                /\ glyph' = None
                /\ i' = i + 1
                /\ pc' = ForNext(i + 1)
           ELSE /\ font' = [created EXCEPT ![unicode_int].foreground = req.outline]
                /\ glyph' = {unicode_int}
                /\ i' = i
                /\ pc' = "scale"
    /\ log' = Append(log, Step("import", i))
    /\ UNCHANGED <<loc, sfd, ttf>>

scale_glyph ==
    /\ UNCHANGED <<cfgvars, placevars, launchvars>>
    /\ pc = "scale"
    /\ font' = [font EXCEPT ![Ref] = transform(@, psMat_scale(scaling_factor))]
    /\ pc' = "measure"
    /\ log' = Append(log, Step("scale", i))
    /\ UNCHANGED <<i, glyph, loc, sfd, ttf>>

\* center_and_align_glyph up to center_x_offset
cag_measure ==
    /\ UNCHANGED <<cfgvars, placevars, launchvars>>
    /\ pc = "measure"
    /\ LET box == boundingBox(font[Ref])
       IN  loc' = [box |-> box,
                   center_x_offset |-> center_x_offset(box, font[Ref].width),
                   y_offset |-> 0]
    /\ pc' = "align"
    /\ log' = Append(log, Step("boundingBox", i))
    /\ UNCHANGED <<font, i, glyph, sfd, ttf>>

\* the if / elif / else on alignment; the ValueError is caught nowhere
cag_align ==
    /\ UNCHANGED <<cfgvars, placevars, launchvars>>
    /\ pc = "align"
    /\ IF ValidAlignment(alignment)
       THEN /\ loc' = [loc EXCEPT !.y_offset =
                          y_offset(loc.box, alignment, vertical_offset, metrics.ascent)]
            /\ pc' = "translate"
       ELSE /\ loc' = loc
            /\ pc' = "ValueError"
    /\ log' = Append(log, Step("align", i))
    /\ UNCHANGED <<font, i, glyph, sfd, ttf>>

cag_translate ==
    /\ UNCHANGED <<cfgvars, placevars, launchvars>>
    /\ pc = "translate"
    /\ font' = [font EXCEPT ![Ref] =
                   transform(@, psMat_translate(loc.center_x_offset, loc.y_offset))]
    /\ pc' = "bearings"
    /\ log' = Append(log, Step("translate", i))
    /\ UNCHANGED <<i, glyph, loc, sfd, ttf>>

\* the bearing assignments end the function and the loop body
cag_bearings ==
    /\ UNCHANGED <<cfgvars, placevars, launchvars>>
    /\ pc = "bearings"
    /\ font' = [font EXCEPT ![Ref] = SetBearings(@, loc.box)]
    /\ i' = i + 1
    /\ pc' = ForNext(i + 1)
    /\ log' = Append(log, Step("bearings", i))
    /\ UNCHANGED <<glyph, loc, sfd, ttf>>

font_save ==
    /\ UNCHANGED <<cfgvars, placevars, launchvars>>
    /\ pc = "save"
    /\ sfd' = Written(font)
    /\ pc' = "generate"
    /\ log' = Append(log, Step("save", i))
    /\ UNCHANGED <<font, i, glyph, loc, ttf>>

font_generate ==
    /\ UNCHANGED <<cfgvars, placevars, launchvars>>
    /\ pc = "generate"
    /\ ttf' = Written(font)
    /\ pc' = "close"
    /\ log' = Append(log, Step("generate", i))
    /\ UNCHANGED <<font, i, glyph, loc, sfd>>

font_close ==
    /\ UNCHANGED <<cfgvars, placevars, launchvars>>
    /\ pc = "close"
    /\ pc' = "done"
    /\ log' = Append(log, Step("close", i))
    /\ UNCHANGED <<font, i, glyph, loc, sfd, ttf>>

Next ==
    \/ create_font
    \/ import_and_trace_glyph
    \/ scale_glyph
    \/ cag_measure
    \/ cag_align
    \/ cag_translate
    \/ cag_bearings
    \/ font_save
    \/ font_generate
    \/ font_close

Spec == Init /\ [][Next]_vars

---------------------------------------------------------------------------
(* scale_glyph and center_and_align_glyph as functions of one glyph *)

One == [num |-> 1, den |-> 1]

ScaleGlyph(g, s) == transform(g, psMat_scale(s))

\* the glyph center_and_align_glyph leaves, for a valid alignment
CenterAndAlign(g, a, off, ascent) ==
    LET box == boundingBox(g)
    IN  SetBearings(
            transform(g, psMat_translate(center_x_offset(box, g.width),
                                         y_offset(box, a, off, ascent))),
            box)

PlaceInit ==
    /\ GLYPHS = <<>>
    /\ scaling_factor \in ScalingFactors
    /\ alignment \in Alignments
    /\ vertical_offset \in VerticalOffsets
    /\ metrics \in FontMetrics
    /\ MainIdle
    /\ \E o \in TraceOutlines : pg = [NewGlyph EXCEPT !.foreground = o]
    /\ pphase = "traced"
    /\ papplied = 0
    /\ plast = [before |-> NewGlyph, center_x_offset |-> 0, y_offset |-> 0]
    /\ LaunchIdle

place_scale_glyph ==
    /\ UNCHANGED <<cfgvars, mainvars, launchvars>>
    /\ pphase = "traced"
    /\ pg' = ScaleGlyph(pg, scaling_factor)
    /\ pphase' = "scaled"
    /\ UNCHANGED <<papplied, plast>>

\* g is the glyph handed to center_and_align_glyph
PlaceRun(g) ==
    /\ papplied < MaxApplications
    /\ papplied' = papplied + 1
    /\ IF ValidAlignment(alignment)
       THEN /\ pg' = CenterAndAlign(g, alignment, vertical_offset, metrics.ascent)
            /\ plast' = [before |-> g,
                         center_x_offset |->
                             center_x_offset(boundingBox(g), g.width),
                         y_offset |->
                             y_offset(boundingBox(g), alignment, vertical_offset,
                                      metrics.ascent)]
            /\ pphase' = "placed"
       ELSE /\ pg' = g
            /\ plast' = [plast EXCEPT !.before = g]
            /\ pphase' = "ValueError"

place_center_and_align ==
    /\ UNCHANGED <<cfgvars, mainvars, launchvars>>
    /\ pphase = "scaled"
    /\ PlaceRun(pg)

\* placement run again on a placed glyph, the scale held at 1
place_again ==
    /\ UNCHANGED <<cfgvars, mainvars, launchvars>>
    /\ pphase = "placed"
    /\ PlaceRun(ScaleGlyph(pg, One))

NextPlace ==
    \/ place_scale_glyph
    \/ place_center_and_align
    \/ place_again

SpecPlace == PlaceInit /\ [][NextPlace]_vars

---------------------------------------------------------------------------
(* create_font_002.py: the dispatch under __main__ and run_main_script *)

Systems == {"Windows", "Linux", "Darwin", "Java"}

\* names tempfile.NamedTemporaryFile can pick in the temporary directory
TempNames == {"tmpa.py", "tmpb.py"}

LaunchInit ==
    /\ GLYPHS = <<>>
    /\ scaling_factor = One
    /\ alignment = "bottom"
    /\ vertical_offset = 0
    /\ metrics = [ascent |-> 800, descent |-> 200, em |-> 1000]
    /\ MainIdle
    /\ PlaceIdle
    /\ lpc = "start"
    /\ system \in Systems
    /\ is_frozen \in BOOLEAN
    /\ can_import \in BOOLEAN
    /\ ffpython_exists \in BOOLEAN
    /\ temp_files \in SUBSET TempNames
    /\ temp_files # TempNames
    /\ temp_script_path = ""
    /\ exit_status = "running"

\* if is_frozen / try_import_fontforge
dispatch ==
    /\ UNCHANGED <<cfgvars, mainvars, placevars>>
    /\ lpc = "start"
    /\ lpc' = IF is_frozen THEN "run_main_script"
              ELSE IF can_import THEN "exec" ELSE "run_main_script"
    /\ UNCHANGED <<system, is_frozen, can_import, ffpython_exists, temp_files, temp_script_path, exit_status>>

\* exec(SCRIPT_CONTENT): main() runs in this process and ends it either way
exec_script ==
    /\ UNCHANGED <<cfgvars, mainvars, placevars>>
    /\ lpc = "exec"
    /\ lpc' = "exited"
    /\ exit_status' \in {"0", "ValueError"}
    /\ UNCHANGED <<system, is_frozen, can_import, ffpython_exists, temp_files, temp_script_path>>

\* with tempfile.NamedTemporaryFile(suffix=".py", delete=False)
write_temp_script ==
    /\ UNCHANGED <<cfgvars, mainvars, placevars>>
    /\ lpc = "run_main_script"
    /\ \E name \in TempNames \ temp_files :
          /\ temp_files' = temp_files \cup {name}
          /\ temp_script_path' = name
    /\ lpc' = "platform"
    /\ UNCHANGED <<system, is_frozen, can_import, ffpython_exists, exit_status>>

\* the if / elif / else on platform.system()
run_interpreter ==
    /\ UNCHANGED <<cfgvars, mainvars, placevars>>
    /\ lpc = "platform"
    /\ IF system = "Windows"
       THEN \* subprocess.call when ffpython.exe exists, else the message
            /\ lpc' = "cleanup"
            /\ exit_status' = exit_status
       ELSE IF system = "Linux"
       THEN \* subprocess.call; its return value is dropped
            /\ lpc' = "cleanup"
            /\ exit_status' = exit_status
       ELSE \* the message, then sys.exit(1)
            /\ lpc' = "exited"
            /\ exit_status' = "1"
    /\ UNCHANGED <<system, is_frozen, can_import, ffpython_exists, temp_files, temp_script_path>>

\* os.remove(temp_script_path); sys.exit()
cleanup ==
    /\ UNCHANGED <<cfgvars, mainvars, placevars>>
    /\ lpc = "cleanup"
    /\ temp_files' = temp_files \ {temp_script_path}
    /\ lpc' = "exited"
    /\ exit_status' = "0"
    /\ UNCHANGED <<system, is_frozen, can_import, ffpython_exists, temp_script_path>>

NextLaunch ==
    \/ dispatch
    \/ exec_script
    \/ write_temp_script
    \/ run_interpreter
    \/ cleanup

SpecLaunch == LaunchInit /\ [][NextLaunch]_vars

---------------------------------------------------------------------------
(* Properties of the placement functions (SpecPlace) *)

Placed == pphase = "placed"

\* the bounding box center_and_align_glyph read, and the one it left
BoxBefore == boundingBox(plast.before)
BoxAfter == boundingBox(pg)

\* C1: after center_and_align_glyph has run on a scaled glyph with a
\* non-empty bounding box, left_side_bearing + glyph_width +
\* right_side_bearing equals the advance width exactly, whatever the width of
\* the scaled bounding box.
C1_BearingsSumToAdvance ==
    (Placed /\ pg.foreground # {}) =>
        FU(pg.left_side_bearing) + glyph_width(BoxBefore)
            + FU(pg.right_side_bearing) = FU(pg.width)

\* C5 as claimed: after placement the pinned edge of the translated bounding
\* box is at vertical_offset (bottom) or at ascent + vertical_offset (top),
\* for every bounding box and every offset.
C5_PinnedEdgeEveryBox ==
    Placed =>
        /\ alignment = "bottom" => BoxAfter.min_y = FU(vertical_offset)
        /\ alignment = "top" => BoxAfter.max_y = FU(metrics.ascent + vertical_offset)

\* C5 amended: for every glyph whose outline is not empty, after placement
\* the pinned edge of its bounding box is at vertical_offset (bottom) or at
\* ascent + vertical_offset (top); with vertical_offset = 0 that is 0 and the
\* ascent.  An empty outline keeps the all-zero bounding box.
C5_PinnedEdge ==
    Placed =>
        /\ (pg.foreground # {} /\ alignment = "bottom") =>
               BoxAfter.min_y = FU(vertical_offset)
        /\ (pg.foreground # {} /\ alignment = "top") =>
               BoxAfter.max_y = FU(metrics.ascent + vertical_offset)
        /\ pg.foreground = {} => BoxAfter = NoLocals.box

C5_Witness ==
    /\ Placed
    /\ pg.foreground # {}
    /\ alignment = "top"
    /\ vertical_offset = 5
    /\ BoxBefore.max_y # FU(metrics.ascent + vertical_offset)
    /\ BoxAfter.max_y = FU(metrics.ascent + 5)

\* the end-to-end scenario of the specification: box (0,0)-(100,200), scale 2,
\* advance 1000, bottom, offset 5
Scenario ==
    /\ Placed
    /\ papplied = 1
    /\ BoxBefore = boundingBox([foreground |-> Box(0, 0, 200, 400)])
    /\ scaling_factor = [num |-> 2, den |-> 1]
    /\ pg.width = 1000
    /\ alignment = "bottom"
    /\ vertical_offset = 5

\* C6: the translation moves the glyph so that its new minimum x is
\* floor((advance_width - glyph_width) / 2), the value written as
\* left_side_bearing, and advance_width - new max_x is the value written as
\* right_side_bearing; in the scenario center_x_offset = 400, y_offset = 5
\* and both bearings are 400.  Stated for the glyphs that have contours to
\* move.
C6_BearingsMatchPosition ==
    (Placed /\ pg.foreground # {}) =>
        /\ BoxAfter.min_x = FloorDiv2(FU(pg.width) - glyph_width(BoxBefore))
        /\ BoxAfter.min_x = FU(pg.left_side_bearing)
        /\ FU(pg.width) - BoxAfter.max_x = FU(pg.right_side_bearing)
        /\ Scenario =>
              /\ plast.center_x_offset = FU(400)
              /\ plast.y_offset = FU(5)
              /\ pg.left_side_bearing = 400
              /\ pg.right_side_bearing = 400

\* the scenario alone does come out as the specification says
C6_ScenarioValues ==
    Scenario =>
        /\ plast.center_x_offset = FU(400)
        /\ plast.y_offset = FU(5)
        /\ pg.left_side_bearing = 400
        /\ pg.right_side_bearing = 400

XCoordinates(g) == {p[1] : p \in g.foreground}

Unmoved ==
    /\ plast.center_x_offset = 0
    /\ XCoordinates(pg) = XCoordinates(plast.before)
    /\ pg.left_side_bearing = plast.before.left_side_bearing
    /\ pg.right_side_bearing = plast.before.right_side_bearing

\* C7 as claimed: for every placed glyph, running center_and_align_glyph
\* again with the same configuration and scale 1 computes center_x_offset = 0
\* and leaves the x-coordinates and the bearings as they were.
C7_IdempotentEveryGlyph == (Placed /\ papplied >= 2) => Unmoved

\* C7 amended: for every placed glyph whose outline is not empty, running
\* center_and_align_glyph again with the same configuration and scale 1
\* computes center_x_offset = 0 and leaves the x-coordinates and the bearings
\* as they were (for an empty outline the bearings are unchanged too, but the
\* offset computed is floor(advance_width / 2)).
C7_Idempotent ==
    (Placed /\ papplied >= 2) =>
        /\ pg.foreground # {} => Unmoved
        /\ pg.foreground = {} => plast.center_x_offset = FU(pg.width \div 2)
        /\ pg.left_side_bearing = plast.before.left_side_bearing
        /\ pg.right_side_bearing = plast.before.right_side_bearing

C7_Witness ==
    /\ Placed
    /\ papplied >= 2
    /\ pg.foreground # {}
    /\ glyph_width(BoxAfter) % Res # 0
    /\ plast.center_x_offset = 0

\* C8 as claimed: for an empty outline placement raises no error and writes
\* both bearings equal to half the advance width, odd or even.
C8_EmptyBothHalf ==
    (pg.foreground = {} /\ ValidAlignment(alignment) /\ papplied >= 1) =>
        /\ Placed
        /\ 2 * pg.left_side_bearing = pg.width
        /\ 2 * pg.right_side_bearing = pg.width

\* C8 amended: for an empty outline (glyph_width = 0) and a valid alignment,
\* placement raises no error and writes left_side_bearing =
\* floor(advance_width / 2) and right_side_bearing = advance_width -
\* left_side_bearing: both half the advance width when it is even, and the
\* right one larger by 1 when it is odd.
C8_EmptyBearings ==
    (pg.foreground = {} /\ ValidAlignment(alignment) /\ papplied >= 1) =>
        /\ Placed
        /\ glyph_width(BoxBefore) = 0
        /\ pg.left_side_bearing = pg.width \div 2
        /\ pg.right_side_bearing = pg.width - pg.left_side_bearing
        /\ pg.width % 2 = 0 => pg.right_side_bearing = pg.left_side_bearing
        /\ pg.width % 2 = 1 => pg.right_side_bearing = pg.left_side_bearing + 1

C8_Witness ==
    /\ Placed
    /\ pg.foreground = {}
    /\ pg.width = 5
    /\ pg.left_side_bearing = 2
    /\ pg.right_side_bearing = 3

---------------------------------------------------------------------------
(* Properties of main() (Spec) *)

Count(op, k) == Cardinality({j \in DOMAIN log : log[j] = Step(op, k)})

Happened(op) == \E j \in DOMAIN log : log[j].op = op

Indices == 1..Len(GLYPHS)

\* C2: with an alignment other than 'top' and 'bottom' the run ends in the
\* configuration error, whatever GLYPHS holds, and neither font.save nor
\* font.generate is executed.
C2_InvalidAlignmentNoOutput ==
    ~ValidAlignment(alignment) =>
        /\ ~sfd.written
        /\ ~ttf.written
        /\ pc # "done"
        /\ ~ENABLED Next => pc = "ValueError"

\* C3: for every request whose image does not exist the font holds no glyph
\* under that character's code point once import_and_trace_glyph has handled
\* it, so none is there when save and generate run.
C3_MissingImageNoGlyph ==
    \A k \in Indices :
        ~GLYPHS[k].exists =>
            /\ Count("import", k) = 1 => ord(GLYPHS[k].char) \notin DOMAIN font
            /\ ord(GLYPHS[k].char) \notin sfd.glyphs
            /\ ord(GLYPHS[k].char) \notin ttf.glyphs

PlacementSteps == {"scale", "boundingBox", "align", "translate", "bearings"}

\* C4: with a valid alignment no missing image and no empty trace ends the
\* run: the run never stops before close, every request is handled once,
\* every request whose image exists (empty trace or not) is scaled and placed
\* exactly once, the others never, and save, generate and close all run.
C4_SkipsAreNotFatal ==
    ValidAlignment(alignment) =>
        /\ pc # "ValueError"
        /\ pc = "done" \/ ENABLED Next
        /\ \A k \in Indices : \A op \in PlacementSteps \cup {"import"} :
              Count(op, k) <= 1
        /\ \A k \in Indices : \A op \in PlacementSteps :
              ~GLYPHS[k].exists => Count(op, k) = 0
        /\ pc = "done" =>
              /\ \A k \in Indices : Count("import", k) = 1
              /\ \A k \in Indices : \A op \in PlacementSteps :
                    GLYPHS[k].exists => Count(op, k) = 1
              /\ \A op \in {"save", "generate", "close"} :
                    Count(op, Len(GLYPHS) + 1) = 1
              /\ sfd.written
              /\ ttf.written

C4_Witness ==
    /\ pc = "done"
    /\ Len(GLYPHS) = 2
    /\ ~GLYPHS[1].exists
    /\ GLYPHS[2].exists
    /\ GLYPHS[2].outline = {}
    /\ Count("bearings", 2) = 1
    /\ sfd.written
    /\ ttf.written

\* the place of a step inside the handling of one request, and of the three
\* closing steps among themselves
Rank(op) ==
    CASE op = "create_font" -> 0
      [] op = "import" -> 1
      [] op = "scale" -> 2
      [] op = "boundingBox" -> 3
      [] op = "align" -> 4
      [] op = "translate" -> 5
      [] op = "bearings" -> 6
      [] op = "save" -> 7
      [] op = "generate" -> 8
      [] op = "close" -> 9

Before(op1, k1, op2, k2) ==
    \E a \in DOMAIN log :
        /\ log[a] = Step(op1, k1)
        /\ \E b \in (a + 1)..Len(log) : log[b] = Step(op2, k2)

\* C9: the steps of a run are strictly ordered: requests are handled one at a
\* time in configuration order, no step of one between the steps of another;
\* for a placed glyph the scale comes before the bounding box is read, that
\* before the translation, that before the bearing writes; save comes only
\* after the last request has been handled, generate only after save, close
\* only after generate.
C9_StepsOrdered ==
    /\ \A a, b \in DOMAIN log :
          a < b =>
              \/ log[a].i < log[b].i
              \/ log[a].i = log[b].i /\ Rank(log[a].op) < Rank(log[b].op)
    /\ \A k \in Indices :
          /\ Count("boundingBox", k) = 1 => Before("scale", k, "boundingBox", k)
          /\ Count("translate", k) = 1 => Before("boundingBox", k, "translate", k)
          /\ Count("bearings", k) = 1 => Before("translate", k, "bearings", k)
    /\ Happened("save") =>
          /\ \A j \in DOMAIN log : log[j].op = "save" => log[j].i = Len(GLYPHS) + 1
          /\ \A k \in Indices :
                /\ Before("import", k, "save", Len(GLYPHS) + 1)
                /\ Count("scale", k) = 1 =>
                       Before("bearings", k, "save", Len(GLYPHS) + 1)
    /\ Happened("generate") =>
          Before("save", Len(GLYPHS) + 1, "generate", Len(GLYPHS) + 1)
    /\ Happened("close") =>
          Before("generate", Len(GLYPHS) + 1, "close", Len(GLYPHS) + 1)

C9_Witness ==
    /\ pc = "done"
    /\ Len(GLYPHS) = 2
    /\ GLYPHS[1].exists
    /\ GLYPHS[2].exists
    /\ Before("bearings", 1, "import", 2)
    /\ Before("bearings", 2, "save", 3)
    /\ Before("generate", 3, "close", 3)

---------------------------------------------------------------------------
(* Property of the launcher (SpecLaunch) *)

\* C10: once run_main_script has created its temporary script file, the file
\* is gone when the process has exited, on every path: Windows with and
\* without ffpython.exe, Linux, and any other operating system.
C10_TempScriptRemoved ==
    (lpc = "exited" /\ temp_script_path # "") =>
        temp_script_path \notin temp_files

====
